---- MODULE Spec2Model ----
(***************************************************************************)
(* Devtools proxy and session manager of the codestory extension:          *)
(* ReactDevtoolsManager (registry of DevtoolsSession by target port),      *)
(* DevtoolsSession (status machine driven by the embedded devtools         *)
(* backend) and proxy() (bind of the reverse proxy with port retry).       *)
(*                                                                         *)
(* Objects live in heaps: `sessions` and `proxies` are sequences whose     *)
(* index is the object's identity; 0 stands for undefined.  Promise        *)
(* continuations are microtasks, so the continuation of an await runs in   *)
(* the same step as the event that settles the awaited promise.            *)
(***************************************************************************)
EXTENDS Integers, Sequences, FiniteSets, TLC

\* ---------------------------------------------------------------- bounds
MaxCalls == 2          \* startOrGetSession calls
MaxProxies == 2        \* proxy() calls when one target port is asked for
MaxManagerProxies == 1 \* proxy() calls when both target ports are asked for

\* ------------------------------------------------------ program constants
DefaultDevtoolsPort == 8097
BaseProxyPort == 8000
maxAttempts == 10

\* the target ports a caller may ask for
Ports == {3000, 3001}

\* enum DevtoolsStatus
Idle == "idle"
ServerConnected == "server-connected"
DevtoolsConnected == "devtools-connected"
Error == "error"
DevtoolsStatus == {ServerConnected, DevtoolsConnected, Error, Idle}

\* the statuses the embedded backend reports; Idle is the session's initial value
BackendStatuses == {ServerConnected, DevtoolsConnected, Error}

\* a manager that forwards the status events only
ForwardedStatusOnly == {"status"}

ForwardedEvents == {"status", "inspectedElement", "inspectHost"}

\* InspectedElementPayload: the payload types the data callback tells apart
PayloadTypes == {"full-data", "no-change"}

\* what getValidReference returns: null or an InspectionResult
References == {"null", "location"}

\* the argument of the inspection callback (isInspecting)
Inspecting == {"inspecting", "not-inspecting"}
ListenErrors == {"EADDRINUSE", "EACCES"}

\* the candidate ports of one proxy() call, and the sets of them that other
\* programs may hold
CandidatePorts == BaseProxyPort .. (BaseProxyPort + maxAttempts)
OccupiedChoices == {{}, {BaseProxyPort}, CandidatePorts}

VARIABLES
    sessions,                  \* heap of DevtoolsSession objects
    proxies,                   \* heap of proxy() calls (proxy/listener pairs)
    registry,                  \* ReactDevtoolsManager._sessions : port -> session
    activeSession,             \* ReactDevtoolsManager.activeSession
    activeSessionDisposables,  \* ReactDevtoolsManager.activeSessionDisposables
    activeInspectedElement,    \* ReactDevtoolsManager._activeInspectedElement
    calls,                     \* promises returned by startOrGetSession
    occupied,                  \* proxy ports held by other programs
    targets,                   \* the target ports the caller asks for
    proxyBudget,               \* the number of proxy() calls explored
    last,                      \* the handler that ran in the last step and what it fired
    requests,                  \* heap of the responses the interceptor handles (proxyRes closures)
    browser                    \* SimpleBrowserManager, its views and the openUrl calls in flight

vars == <<sessions, proxies, registry, activeSession, activeSessionDisposables,
          activeInspectedElement, calls, occupied, targets, proxyBudget, last, requests, browser>>

\* the state of the session manager and of the proxy starts
managerVars == <<sessions, proxies, registry, activeSession, activeSessionDisposables,
                 activeInspectedElement, calls, occupied, targets, proxyBudget, last>>

Max(S) == CHOOSE m \in S : \A n \in S : n <= m

\* the SimpleBrowserManager after construction: no view, nothing in flight
NoBrowser ==
    [ activeView |-> 0, views |-> <<>>, opening |-> <<>>, shows |-> 0,
      urlChange |-> [view |-> 0, url |-> "none", fired |-> 0] ]

\* ------------------------------------------------------------ DevtoolsSession

\* constructor: fields of a fresh session
NewSession(port, suggestedDevtoolsPort) ==
    [ port |-> port,
      suggestedDevtoolsPort |-> suggestedDevtoolsPort,
      devtoolsPort |-> 0,
      status |-> Idle,
      proxyResult |-> 0,
      stopped |-> FALSE,
      forwarders |-> {},
      waiters |-> {} ]

\* get proxyPort
ProxyPort(ss, px, s) ==
    IF ss[s].proxyResult = 0 THEN 0 ELSE px[ss[s].proxyResult].proxyPort

\* cleanup(proxy, server): closes the pair of one proxy() result; closing a
\* closed pair releases nothing more
cleanup(px, x) ==
    [px EXCEPT ![x].state = "closed",
               ![x].pairs = IF px[x].state = "bound" THEN @ - 1 ELSE @]

\* _cleanupProxy that releases nothing
CleanupProxyNothing(ss, px, s) == px

\* _cleanupProxy: this._proxyResult?.cleanup()
CleanupProxy(ss, px, s) ==
    IF ss[s].proxyResult = 0 THEN px ELSE cleanup(px, ss[s].proxyResult)

\* proxy(): the first tryListen, server.listen(8000) pending; pairs counts the
\* proxy/listener pairs the call created and has not released
NewProxy(s) ==
    [ owner |-> s, state |-> "starting", proxyPort |-> BaseProxyPort,
      attempt |-> 0, error |-> "none", pairs |-> 1 ]

\* updateStatus that fires without awaiting _startProxy
AwaitsNothing(status) == FALSE

\* updateStatus: only ServerConnected awaits _startProxy before firing
AwaitsProxy(status) == status = ServerConnected

\* _startProxy that drops the result of proxy()
StartProxyDoneForgets(ss, s, x) == ss

\* _startProxy: this._proxyResult = await proxy(...)
StartProxyDone(ss, s, x) == [ss EXCEPT ![s].proxyResult = x]

\* ------------------------------------------------- startOrGetSession listener

\* statusListener: first branch
ListenerResolves(status, proxyPort) == status = ServerConnected /\ proxyPort # 0

\* statusListener without its Error branch
ListenerNeverRejects(status) == FALSE

\* statusListener: second branch
ListenerRejects(status) == status = Error

\* statusListener.dispose() is called in the resolving branch only
ListenerDisposed(status, proxyPort) == ListenerResolves(status, proxyPort)

WaitersAfterFire(ss, px, s, status) ==
    IF ListenerDisposed(status, ProxyPort(ss, px, s)) THEN {} ELSE ss[s].waiters

CallsAfterFire(cs, ss, px, s, status) ==
    [c \in DOMAIN cs |->
        IF c \in ss[s].waiters /\ cs[c].state = "pending"
        THEN IF ListenerResolves(status, ProxyPort(ss, px, s))
             THEN [cs[c] EXCEPT !.state = "resolved", !.value = ProxyPort(ss, px, s)]
             ELSE IF ListenerRejects(status)
                  THEN [cs[c] EXCEPT !.state = "rejected"]
                  ELSE cs[c]
        ELSE cs[c]]

\* last.backend is the command the handler gave to the embedded backend
NoOp == [op |-> "none", session |-> 0, event |-> "none", fired |-> "none", forwarded |-> FALSE,
         backend |-> "none"]

\* a step of handler op on session s that fires no event
Quiet(op, s) == [op |-> op, session |-> s, event |-> "none", fired |-> "none", forwarded |-> FALSE,
                 backend |-> "none"]

\* emitter.fire(value) of a session's event: delivered to the manager's
\* forwarder if one is subscribed
Emitted(ss, op, s, event, value) ==
    [op |-> op, session |-> s, event |-> event, fired |-> value,
     forwarded |-> (event \in ss[s].forwarders), backend |-> "none"]

\* this._devtools.<command>() at the end of a handler
Commanded(l, command) == [l EXCEPT !.backend = command]

\* this._onStatusChange.fire(status): delivery to the forwarder and the waiters
Fire(ss, px, s, status, op) ==
    /\ sessions' = [ss EXCEPT ![s].waiters = WaitersAfterFire(ss, px, s, status)]
    /\ calls' = CallsAfterFire(calls, ss, px, s, status)
    /\ proxies' = px
    /\ last' = Emitted(ss, op, s, "status", status)

\* updateStatus up to its first suspension (or to its end when it does not await)
UpdateStatus(ss, px, s, status, op) ==
    LET ss1 == [ss EXCEPT ![s].status = status] IN
    IF AwaitsProxy(status)
    THEN /\ sessions' = ss1
         /\ calls' = calls
         /\ last' = Quiet(op, s)
         /\ IF ss1[s].devtoolsPort = 0
            THEN proxies' = px                       \* _startProxy throws
            ELSE proxies' = Append(px, NewProxy(s))  \* proxy() in flight
    ELSE Fire(ss1, px, s, status, op)

StartsProxy(s, status) == AwaitsProxy(status) /\ sessions[s].devtoolsPort # 0

Init ==
    /\ sessions = <<>>
    /\ proxies = <<>>
    /\ registry = [p \in Ports |-> 0]
    /\ activeSession = 0
    /\ activeSessionDisposables = <<>>
    /\ activeInspectedElement = "undefined"
    /\ calls = <<>>
    /\ occupied = {}
    /\ targets = Ports
    /\ proxyBudget = MaxManagerProxies
    /\ last = NoOp
    /\ requests = <<>>
    /\ browser = NoBrowser

\* ------------------------------------------------------- ReactDevtoolsManager

\* a lookup that never finds the session
HasSessionNever(port) == FALSE

\* a lookup that does not find a session in Error status
HasHealthySession(port) ==
    registry[port] # 0 /\ sessions[registry[port]].status # Error

\* this._sessions.has(port)
HasSession(port) == registry[port] # 0

\* a registry that records nothing
SessionsSetNowhere(reg, port, s) == reg

\* this._sessions.set(port, session)
SessionsSet(reg, port, s) == [reg EXCEPT ![port] = s]

\* the sessions of this._sessions.values()
RegisteredSessions == {registry[q] : q \in {r \in Ports : registry[r] # 0}}

\* a suggestion that is always the default
SuggestedDefaultPort == DefaultDevtoolsPort

\* suggestedDevtoolsPort: max of the known devtoolsPort values + 1, else the
\* default of the constructor parameter
SuggestedDevtoolsPort ==
    LET activeSessionPorts == {sessions[t].devtoolsPort : t \in RegisteredSessions} \ {0}
    IN  IF activeSessionPorts # {} THEN Max(activeSessionPorts) + 1 ELSE DefaultDevtoolsPort

\* a clearSessionDisposables that disposes nothing
ClearSessionDisposablesNothing(ss) == ss

\* clearSessionDisposables: dispose every forwarder subscription
ClearSessionDisposables(ss) ==
    [t \in DOMAIN ss |->
        [ss[t] EXCEPT !.forwarders =
            @ \ {activeSessionDisposables[i].event :
                    i \in {j \in DOMAIN activeSessionDisposables :
                              activeSessionDisposables[j].session = t}}]]

\* the three forwarders pushed for the new active session
Forwarders(s) ==
    << [session |-> s, event |-> "status"],
       [session |-> s, event |-> "inspectedElement"],
       [session |-> s, event |-> "inspectHost"] >>

\* a readiness test that never succeeds
ReadyNever(ss, px, s) == FALSE

\* session.status === ServerConnected && session.proxyPort
ReadyNow(ss, px, s) == ss[s].status = ServerConnected /\ ProxyPort(ss, px, s) # 0

startOrGetSession(port) ==
    /\ Len(calls) < MaxCalls
    /\ port \in targets
    /\ LET has == HasSession(port)
           s == IF has THEN registry[port] ELSE Len(sessions) + 1
           ss1 == IF has THEN sessions
                  ELSE Append(sessions, NewSession(port, SuggestedDevtoolsPort))
           switch == activeSession # s
           ss2 == IF switch
                  THEN [ClearSessionDisposables(ss1) EXCEPT ![s].forwarders = @ \cup ForwardedEvents]
                  ELSE ss1
           c == Len(calls) + 1
           ready == ReadyNow(ss2, proxies, s)
           prev == IF last.op = "startOrGetSession" /\ c > 1 /\ calls[c - 1].port = port
                   THEN c - 1 ELSE 0
       IN  /\ registry' = IF has THEN registry ELSE SessionsSet(registry, port, s)
           /\ activeSession' = s
           /\ activeSessionDisposables' =
                  IF switch THEN Forwarders(s) ELSE activeSessionDisposables
           /\ calls' = Append(calls,
                  [ port |-> port, session |-> s, prev |-> prev, waited |-> ~ready,
                    state |-> IF ready THEN "resolved" ELSE "pending",
                    value |-> IF ready THEN ProxyPort(ss2, proxies, s) ELSE 0 ])
           /\ sessions' = IF ready THEN ss2
                          ELSE [ss2 EXCEPT ![s].waiters = @ \cup {c}]
           /\ activeInspectedElement' =
                  IF switch THEN "undefined" ELSE activeInspectedElement
           /\ proxies' = proxies
           /\ UNCHANGED <<occupied, targets, proxyBudget, requests, browser>>
           /\ last' = Quiet("startOrGetSession", s)

\* the embedded backend reports a status: DevtoolsSession.updateStatus.  The
\* backend is opaque: it may report any status at any time until stopServer.
StatusCallback(s, status) ==
    /\ ~sessions[s].stopped
    /\ StartsProxy(s, status) => Len(proxies) < proxyBudget
    /\ UpdateStatus(sessions, proxies, s, status, "updateStatus")
    /\ UNCHANGED <<registry, activeSession, activeSessionDisposables, occupied, targets, proxyBudget, activeInspectedElement, requests, browser>>

\* the embedded backend reports a disconnect: DevtoolsSession.onDidDisconnect
onDidDisconnect(s) ==
    /\ ~sessions[s].stopped
    /\ IF sessions[s].status = DevtoolsConnected
       THEN /\ StartsProxy(s, ServerConnected) => Len(proxies) < proxyBudget
            /\ UpdateStatus(sessions, CleanupProxy(sessions, proxies, s), s,
                            ServerConnected, "onDidDisconnect")
       ELSE /\ UNCHANGED <<sessions, proxies, calls>>
            /\ last' = Quiet("onDidDisconnect", s)
    /\ UNCHANGED <<registry, activeSession, activeSessionDisposables, occupied, targets, proxyBudget, activeInspectedElement, requests, browser>>

\* the embedded backend's server is up: currentPort becomes known
BackendListening(s) ==
    /\ ~sessions[s].stopped
    /\ sessions[s].devtoolsPort = 0
    /\ sessions' = [sessions EXCEPT ![s].devtoolsPort = sessions[s].suggestedDevtoolsPort]
    /\ last' = NoOp
    /\ UNCHANGED <<proxies, registry, activeSession, activeSessionDisposables, calls, occupied, targets, proxyBudget, activeInspectedElement, requests, browser>>

\* inspection traffic comes from a frontend that is connected to the backend
FrontendConnected(s) == ~sessions[s].stopped /\ sessions[s].status = DevtoolsConnected

\* the embedded backend delivers inspection data: updateInspectedElement, to
\* the fire that follows getValidReference.  The payload it stores in
\* _inspectedElement is read by nothing in the session or the manager and is
\* not kept; the manager's activeInspectedElement is a field of its own.
updateInspectedElement(s, type, reference) ==
    /\ FrontendConnected(s)
    /\ sessions' = sessions
    /\ last' = IF type = "full-data"
               THEN Emitted(sessions, "updateInspectedElement", s, "inspectedElement", reference)
               ELSE Quiet("updateInspectedElement", s)
    /\ UNCHANGED <<proxies, registry, activeSession, activeSessionDisposables, calls, occupied, targets, proxyBudget, activeInspectedElement, requests, browser>>

\* the embedded backend reports an inspect-host change: updateInspectHost
updateInspectHost(s, isInspecting) ==
    /\ FrontendConnected(s)
    /\ last' = Emitted(sessions, "updateInspectHost", s, "inspectHost", isInspecting)
    /\ UNCHANGED <<sessions, proxies, registry, activeSession, activeSessionDisposables, calls, occupied, targets, proxyBudget, activeInspectedElement, requests, browser>>

\* a startInspectingHost that fires nothing
NoLocalNotification(ss, s) == Quiet("startInspectingHost", s)

\* this._onInspectHostChange.fire(true)
LocalNotification(ss, s) == Emitted(ss, "startInspectingHost", s, "inspectHost", "inspecting")

\* ReactDevtoolsManager.startInspectingHost -> DevtoolsSession.startInspectingHost:
\* the fire, then the command to the backend
startInspectingHost ==
    /\ last' = IF activeSession = 0
               THEN Quiet("startInspectingHost", 0)
               ELSE Commanded(LocalNotification(sessions, activeSession), "startInspectingHost")
    /\ UNCHANGED <<sessions, proxies, registry, activeSession, activeSessionDisposables, calls, occupied, targets, proxyBudget, activeInspectedElement, requests, browser>>

\* ReactDevtoolsManager.stopInspectingHost -> DevtoolsSession.stopInspectingHost
stopInspectingHost ==
    /\ last' = IF activeSession = 0
               THEN Quiet("stopInspectingHost", 0)
               ELSE Commanded(Quiet("stopInspectingHost", activeSession), "stopInspectingHost")
    /\ UNCHANGED <<sessions, proxies, registry, activeSession, activeSessionDisposables, calls, occupied, targets, proxyBudget, activeInspectedElement, requests, browser>>

\* ------------------------------------------------------------------- proxy()

\* a port one of this program's own bound listeners holds
HeldPort(q) ==
    \/ q \in occupied
    \/ \E y \in DOMAIN proxies : proxies[y].state = "bound" /\ proxies[y].proxyPort = q

\* server 'listening': proxy() resolves, _startProxy stores the result and
\* updateStatus resumes with fire(ServerConnected), the status it was called
\* with.  The closure's attempt counter is unreachable from here on.
Listening(x) ==
    /\ proxies[x].state = "starting"
    /\ ~HeldPort(proxies[x].proxyPort)
    /\ LET s == proxies[x].owner
           px == [proxies EXCEPT ![x].state = "bound", ![x].attempt = 0]
       IN  Fire(StartProxyDone(sessions, s, x), px, s, ServerConnected, "listening")
    /\ UNCHANGED <<registry, activeSession, activeSessionDisposables, occupied, targets, proxyBudget, activeInspectedElement, requests, browser>>

\* a retry on every listen error
RetriesOnAnyError(err, attempt) == attempt < maxAttempts

\* err.code === 'EADDRINUSE' && attempt < maxAttempts
Retries(err, attempt) == err = "EADDRINUSE" /\ attempt < maxAttempts

\* an error handler that leaves the failed pair as it is
ReleasePairNothing(n) == n

\* cleanup(proxyServer, server) of the pair whose listen failed
ReleasePair(n) == n - 1

\* server 'error': clean the failed pair up, then retry on the next port with
\* a new pair (tryListen) or reject
ListenError(x, err) ==
    /\ proxies[x].state = "starting"
    /\ err = "EADDRINUSE" => HeldPort(proxies[x].proxyPort)
    /\ proxies' = IF Retries(err, proxies[x].attempt)
                  THEN [proxies EXCEPT ![x].attempt = @ + 1, ![x].proxyPort = @ + 1,
                                       ![x].pairs = ReleasePair(@) + 1]
                  ELSE [proxies EXCEPT ![x].state = "rejected", ![x].error = err,
                                       ![x].attempt = 0, ![x].proxyPort = 0,
                                       ![x].pairs = ReleasePair(@)]
    /\ last' = NoOp
    /\ UNCHANGED <<sessions, registry, activeSession, activeSessionDisposables, calls, occupied, targets, proxyBudget, activeInspectedElement, requests, browser>>

\* ------------------------------------------------------------------- dispose

\* DevtoolsSession.dispose: callOnDispose (cleanup, stopServer), then cleanup
\* and stopServer once more
DisposedProxies(ss, px, s) == CleanupProxy(ss, CleanupProxy(ss, px, s), s)

RECURSIVE DisposeAll(_, _, _)
DisposeAll(ss, px, S) ==
    IF S = {} THEN px
    ELSE LET s == CHOOSE t \in S : TRUE
         IN  DisposeAll(ss, DisposedProxies(ss, px, s), S \ {s})

\* ReactDevtoolsManager.dispose -> _disposeSessions
disposeSessions ==
    /\ RegisteredSessions # {}
    /\ proxies' = DisposeAll(sessions, proxies, RegisteredSessions)
    /\ sessions' = [t \in DOMAIN sessions |->
                      IF t \in RegisteredSessions
                      THEN [ClearSessionDisposables(sessions)[t] EXCEPT !.stopped = TRUE]
                      ELSE ClearSessionDisposables(sessions)[t]]
    /\ activeSessionDisposables' = <<>>
    /\ last' = Quiet("dispose", 0)
    /\ UNCHANGED <<registry, activeSession, calls, occupied, targets, proxyBudget, activeInspectedElement, requests, browser>>

Next ==
    \/ \E port \in Ports : startOrGetSession(port)
    \/ \E s \in DOMAIN sessions : \E status \in BackendStatuses : StatusCallback(s, status)
    \/ \E s \in DOMAIN sessions : onDidDisconnect(s)
    \/ \E s \in DOMAIN sessions : BackendListening(s)
    \/ \E s \in DOMAIN sessions : \E type \in PayloadTypes : \E reference \in References :
          updateInspectedElement(s, type, reference)
    \/ \E s \in DOMAIN sessions : \E isInspecting \in Inspecting : updateInspectHost(s, isInspecting)
    \/ startInspectingHost
    \/ stopInspectingHost
    \/ \E x \in DOMAIN proxies : Listening(x)
    \/ \E x \in DOMAIN proxies : \E err \in ListenErrors : ListenError(x, err)
    \/ disposeSessions

Spec == Init /\ [][Next]_vars

\* one target port, with every choice of the ports other programs hold
InitSession ==
    /\ sessions = <<>>
    /\ proxies = <<>>
    /\ registry = [p \in Ports |-> 0]
    /\ activeSession = 0
    /\ activeSessionDisposables = <<>>
    /\ activeInspectedElement = "undefined"
    /\ calls = <<>>
    /\ occupied \in OccupiedChoices
    /\ targets = {3000}
    /\ proxyBudget = MaxProxies
    /\ last = NoOp
    /\ requests = <<>>
    /\ browser = NoBrowser

SessionSpec == InitSession /\ [][Next]_vars

TypeOK ==
    /\ \A s \in DOMAIN sessions : sessions[s].status \in DevtoolsStatus
    /\ \A x \in DOMAIN proxies : proxies[x].state \in {"starting", "bound", "closed", "rejected"}
    /\ Len(proxies) <= proxyBudget
    /\ Len(calls) <= MaxCalls

\* one listen outcome (listening or error) arrives for every pending listen
ListenOutcome(x) ==
    /\ x \in DOMAIN proxies
    /\ (Listening(x) \/ \E err \in ListenErrors : ListenError(x, err))

FairSessionSpec == SessionSpec /\ \A x \in 1 .. MaxProxies : WF_vars(ListenOutcome(x))

\* --------------------------------------------------- startInterceptingDocument

MaxDirectives == 2     \* directives in one content-security-policy value
MaxChunks == 2         \* 'data' events of one response
MaxPasses == 2         \* interceptors one document passes through

Min(S) == CHOOSE m \in S : \A n \in S : m <= n

\* Text is a sequence of atoms: pieces of text that no regular expression and
\* no parser of the code splits.  "script-src-elem" is the two atoms
\* "script-src", "-elem": the expression /script-src/ matches inside it.
UnsafeTokens == <<" ", "'unsafe-inline'", " ", "'unsafe-eval'">>

\* 'nonce-XXXX' tokens and the XXXX that ([^']+) captures
NonceValue == [a \in {"'nonce-abc'", "'nonce-xyz'"} |->
                  IF a = "'nonce-abc'" THEN "abc" ELSE "xyz"]

\* the directives the upstream policies are made of
Directives ==
    { <<"default-src", " ", "'self'">>,
      <<"default-src", " ", "'nonce-xyz'">>,
      <<"script-src", " ", "'self'">>,
      <<"script-src", " ", "'nonce-abc'">>,
      <<"script-src">>,
      <<"script-src", "-elem", " ", "'self'">>,
      <<"script-src", "-elem", " ", "'nonce-abc'">>,
      <<"frame-ancestors", " ", "'none'">>,
      <<"img-src", " ", "'self'">> }

\* cspHeader.join('; ')
RECURSIVE Join(_)
Join(items) ==
    IF Len(items) = 0 THEN <<>>
    ELSE IF Len(items) = 1 THEN items[1]
    ELSE items[1] \o <<";", " ">> \o Join(Tail(items))

\* [^;]* from the atom after position i: the last position before the next ";"
RunEnd(s, i) ==
    LET stops == {k \in (i + 1) .. Len(s) : s[k] = ";"}
    IN  IF stops = {} THEN Len(s) ELSE Min(stops) - 1

\* cspHeader.replace(/frame-ancestors[^;]*(;|$)/, ''): no g flag, the first
\* match only
RemoveFrameAncestors(s) ==
    LET starts == {i \in DOMAIN s : s[i] = "frame-ancestors"}
    IN  IF starts = {} THEN s
        ELSE LET i == Min(starts)
                 e == RunEnd(s, i)
                 matchEnd == IF e < Len(s) THEN e + 1 ELSE e
             IN  SubSeq(s, 1, i - 1) \o SubSeq(s, matchEnd + 1, Len(s))

\* cspHeader.replace(/(keyword[^;]+)/, `$1 'unsafe-inline' 'unsafe-eval'`):
\* the first place where keyword is followed by at least one character that is
\* not ";"
AppendUnsafe(s, keyword) ==
    LET starts == {i \in DOMAIN s : s[i] = keyword /\ RunEnd(s, i) > i}
    IN  IF starts = {} THEN s
        ELSE LET e == RunEnd(s, Min(starts))
             IN  SubSeq(s, 1, e) \o UnsafeTokens \o SubSeq(s, e + 1, Len(s))

\* /script-src/.test(cspHeader)
TestScriptSrc(s) == \E i \in DOMAIN s : s[i] = "script-src"

\* the rewrite of a string-valued content-security-policy header
RelaxCsp(s) ==
    LET stripped == RemoveFrameAncestors(s)
    IN  IF TestScriptSrc(stripped)
        THEN AppendUnsafe(stripped, "script-src")
        ELSE AppendUnsafe(stripped, "default-src")

\* extractNonce: /(?:script-src|default-src)[^;]*'nonce-([^']+)'/, "" for null.
\* The leftmost keyword with a nonce token before the next ";", and, [^;]*
\* being greedy, the last nonce token there.
extractNonce(s) ==
    LET nonces(i) == {k \in (i + 1) .. RunEnd(s, i) : s[k] \in DOMAIN NonceValue}
        starts == {i \in DOMAIN s : s[i] \in {"script-src", "default-src"} /\ nonces(i) # {}}
    IN  IF starts = {} THEN ""
        ELSE NonceValue[s[Max(nonces(Min(starts)))]]

\* ---- headers: a function from the names of the fields present to their values

NoHeaders == [n \in {} |-> ""]

Has(headers, name) == name \in DOMAIN headers

\* headers[name] || ''
Get(headers, name) == IF Has(headers, name) THEN headers[name] ELSE ""

\* a delete that removes nothing
DeleteNothing(headers, name) == headers

\* delete headers[name]
Delete(headers, name) == [n \in DOMAIN headers \ {name} |-> headers[n]]

\* headers[name] = value
Set(headers, name, value) ==
    [n \in DOMAIN headers \cup {name} |-> IF n = name THEN value ELSE headers[n]]

\* String.prototype.toLowerCase on the header values that occur
ToLowerCase(v) == IF v = "Text/HTML" THEN "text/html" ELSE IF v = "GZIP" THEN "gzip" ELSE v

\* String.prototype.includes on the header values that occur
Includes(v, word) ==
    \/ v = word
    \/ v = "text/html; charset=utf-8" /\ word = "text/html"

\* a content-security-policy value: a string, or an array of strings
CspValue(array, items) == [array |-> array, items |-> items]

\* ---- bodies: sequences of byte groups; a document is the sequence of its
\* tags and texts

Node(name) == [name |-> name, src |-> 0, nonce |-> ""]

\* parseFragment(makeDevtoolsScript(devtoolsUrl)).childNodes[0]
DevtoolsScript(reactDevtoolsPort) ==
    [name |-> "script", src |-> reactDevtoolsPort, nonce |-> ""]

\* parseFragment(makeNavigationScript(nonce)).childNodes[0]
NavigationScript(nonce) ==
    [name |-> "navigation-script", src |-> 0, nonce |-> nonce]

\* the bytes a node or a byte group takes in UTF-8
Width(node) ==
    CASE node.name = "0xff" -> 1
      [] node.name = "U+FFFD" -> 3
      [] node.name = "html" -> 6
      [] node.name = "head" -> 6
      [] node.name = "/head" -> 7
      [] node.name = "body" -> 20
      [] node.name = "script" -> 45
      [] node.name = "navigation-script" ->
             IF node.nonce = "" THEN 900 ELSE 912
      [] OTHER -> 2

\* Buffer.byteLength(string)
RECURSIVE ByteLength(_)
ByteLength(s) == IF s = <<>> THEN 0 ELSE Width(Head(s)) + ByteLength(Tail(s))

\* a concatenation that keeps the last chunk only
ConcatLast(chunks) == IF chunks = <<>> THEN <<>> ELSE chunks[Len(chunks)]

\* Buffer.concat(bodyChunks)
RECURSIVE Concat(_)
Concat(chunks) == IF chunks = <<>> THEN <<>> ELSE Head(chunks) \o Concat(Tail(chunks))

\* the page every compressed body holds
Page == <<Node("html"), Node("head"), Node("/head"), Node("body")>>

\* the page compressed in a format: the magic bytes of the format and a stream
\* that is no text
Compressed(format) == <<Node(format), Node("stream")>>

\* a decompression that hands back bytes it cannot decode
InflateLenient(format, raw) ==
    IF raw = Compressed(format)
    THEN [ok |-> TRUE, value |-> Page]
    ELSE [ok |-> TRUE, value |-> raw]

\* zlib.gunzipSync / inflateSync / brotliDecompressSync: the content of a
\* stream of the format, an exception for any other bytes
Inflate(format, raw) ==
    IF raw = Compressed(format)
    THEN [ok |-> TRUE, value |-> Page]
    ELSE [ok |-> FALSE, value |-> <<>>]

\* the try block that chooses the decompression by content-encoding
Decompressed(contentEncoding, raw) ==
    IF Includes(contentEncoding, "gzip") THEN Inflate("gzip", raw)
    ELSE IF Includes(contentEncoding, "deflate") THEN Inflate("deflate", raw)
    ELSE IF Includes(contentEncoding, "br") THEN Inflate("br", raw)
    ELSE [ok |-> TRUE, value |-> raw]

\* decompressedBuffer.toString('utf8'): an invalid byte becomes U+FFFD
ToStringUtf8(bytes) ==
    [i \in DOMAIN bytes |-> IF bytes[i].name = "0xff" THEN Node("U+FFFD") ELSE bytes[i]]

\* parse(originalBody) and the two find() calls.  The document is taken to
\* have the nodes its text has: an html node and a head node are found only if
\* the text has them (a parser that supplies the elements a text omits finds
\* them in every text, and then pipeThrough is never called).
HtmlNode(text) == \E i \in DOMAIN text : text[i].name = "html"
HeadNode(text) ==
    \E i, j \in DOMAIN text : i < j /\ text[i].name = "head" /\ text[j].name = "/head"

\* defaultTreeAdapter.appendChild(headNode, node): the last child of head
AppendChild(text, node) ==
    LET close == Min({j \in DOMAIN text : text[j].name = "/head"})
    IN  SubSeq(text, 1, close - 1) \o <<node>> \o SubSeq(text, close, Len(text))

\* a response that was not written
Unwritten == [written |-> FALSE, statusCode |-> 0, headers |-> NoHeaders, body |-> <<>>]

\* res.writeHead(proxyRes.statusCode || 200, headers); res.end(body)
Written(statusCode, headers, body) ==
    [written |-> TRUE, statusCode |-> IF statusCode = 0 THEN 200 ELSE statusCode,
     headers |-> headers, body |-> body]

\* pipeThrough(res, proxyRes), called in the 'end' listener: the stream has
\* ended and its chunks went to the 'data' listener, so pipe() finds no data
\* and ends the response
pipeThrough(proxyRes) == Written(proxyRes.statusCode, proxyRes.headers, <<>>)

\* the header fix-ups of a rewritten response
AdjustedHeaders(headers, modifiedBody) ==
    LET csp == IF Has(headers, "content-security-policy")
               THEN headers["content-security-policy"] ELSE CspValue(FALSE, <<>>)
        cspHeader == IF csp.array THEN Join(csp.items) ELSE csp.items[1]
        h1 == IF Has(headers, "content-security-policy")
              THEN Set(headers, "content-security-policy",
                       CspValue(FALSE, <<RelaxCsp(cspHeader)>>))
              ELSE headers
    IN  Set(Delete(Delete(h1, "transfer-encoding"), "content-encoding"),
            "content-length", ByteLength(modifiedBody))

\* the nonce of the navigation script: cspHeader ? extractNonce(cspHeader) : null
NonceOf(headers) ==
    IF ~Has(headers, "content-security-policy") THEN ""
    ELSE LET csp == headers["content-security-policy"]
         IN  extractNonce(IF csp.array THEN Join(csp.items) ELSE csp.items[1])

\* the 'end' listener of proxyRes
Intercepted(proxyRes, bodyChunks, reactDevtoolsPort) ==
    LET contentType == Get(proxyRes.headers, "content-type")
        isHtml == Includes(ToLowerCase(contentType), "text/html")
        rawBuffer == Concat(bodyChunks)
        contentEncoding == ToLowerCase(Get(proxyRes.headers, "content-encoding"))
        decompressed == Decompressed(contentEncoding, rawBuffer)
        originalBody == ToStringUtf8(decompressed.value)
        modifiedBody ==
            AppendChild(AppendChild(originalBody, DevtoolsScript(reactDevtoolsPort)),
                        NavigationScript(NonceOf(proxyRes.headers)))
    IN  IF ~isHtml THEN Written(proxyRes.statusCode, proxyRes.headers, rawBuffer)
        ELSE IF ~decompressed.ok
             THEN Written(proxyRes.statusCode, proxyRes.headers, rawBuffer)
        ELSE IF ~HtmlNode(originalBody) \/ ~HeadNode(originalBody)
             THEN pipeThrough(proxyRes)
        ELSE Written(proxyRes.statusCode,
                     AdjustedHeaders(proxyRes.headers, modifiedBody), modifiedBody)

\* ---- the responses of the target server

PageWithInvalidByte == <<Node("html"), Node("head"), Node("/head"), Node("0xff")>>
HeadlessPage == <<Node("html"), Node("body")>>
Fragment == <<Node("body")>>

\* the bodies on the wire: plain, compressed, and empty
RawBodies ==
    { Page, PageWithInvalidByte, HeadlessPage, Fragment, <<>>,
      Compressed("gzip"), Compressed("deflate"), Compressed("br") }

\* the ways a body arrives in at most k 'data' events
RECURSIVE Chunkings(_, _)
Chunkings(b, k) ==
    IF b = <<>> THEN {<<>>}
    ELSE IF k <= 1 THEN {<<b>>}
    ELSE {<<b>>} \cup
         UNION { { <<SubSeq(b, 1, i)>> \o rest :
                     rest \in Chunkings(SubSeq(b, i + 1, Len(b)), k - 1) } :
                 i \in 1 .. (Len(b) - 1) }

\* the policies of at most MaxDirectives directives, as one string
Policies ==
    { Join(ds) : ds \in UNION { [1 .. n -> Directives] : n \in 1 .. MaxDirectives } }

\* the values of a content-security-policy header: a string, or an array of
\* one-directive strings
CspValues ==
    { CspValue(FALSE, <<s>>) : s \in Policies } \cup
    { CspValue(TRUE, items) :
        items \in UNION { [1 .. n -> Directives] : n \in 1 .. MaxDirectives } }

\* the policies of the responses whose body is under study
SomeCspValues ==
    { CspValue(FALSE, <<Join(<<(<<"script-src", " ", "'nonce-abc'">>),
                               (<<"frame-ancestors", " ", "'none'">>)>>)>>),
      CspValue(FALSE, <<(<<"default-src", " ", "'self'">>)>>),
      CspValue(TRUE, <<(<<"default-src", " ", "'nonce-xyz'">>),
                       (<<"img-src", " ", "'self'">>)>>) }

\* a field that is absent, or has one of the values
Field(name, values) ==
    {NoHeaders} \cup { [n \in {name} |-> v] : v \in values }

\* the header sets of the target server
UpstreamHeaders(body, cspValues) ==
    { [n \in {"etag"} |-> "W/1"] @@ ct @@ ce @@ fr @@ csp :
        ct \in Field("content-type",
                     {"text/html; charset=utf-8", "Text/HTML", "application/json"}),
        ce \in Field("content-encoding", {"gzip", "GZIP", "deflate", "br"}),
        fr \in { [n \in {"transfer-encoding"} |-> "chunked"],
                 [n \in {"content-length"} |-> ByteLength(body)] },
        csp \in Field("content-security-policy", cspValues) }

\* proxy.on('proxyRes', ...): a response of the target server begins, with its
\* empty bodyChunks.  proxyRes.body is what the target server sends, which the
\* interceptor sees only as the chunks of its 'data' events.
Request(statusCode, headers, body, chunks, reactDevtoolsPort, pass) ==
    [proxyRes |-> [statusCode |-> statusCode, headers |-> headers, body |-> body],
     pending |-> chunks, bodyChunks |-> <<>>, res |-> Unwritten,
     reactDevtoolsPort |-> reactDevtoolsPort, pass |-> pass]

ManagerIdle ==
    /\ sessions = <<>>
    /\ proxies = <<>>
    /\ registry = [p \in Ports |-> 0]
    /\ activeSession = 0
    /\ activeSessionDisposables = <<>>
    /\ activeInspectedElement = "undefined"
    /\ calls = <<>>
    /\ occupied = {}
    /\ targets = Ports
    /\ proxyBudget = 0
    /\ last = NoOp
    /\ browser = NoBrowser

InterceptInit ==
    /\ ManagerIdle
    /\ \E statusCode \in {200, 404}, body \in RawBodies,
          reactDevtoolsPort \in {DefaultDevtoolsPort, DefaultDevtoolsPort + 1} :
         \E headers \in UpstreamHeaders(body, SomeCspValues),
            chunks \in Chunkings(body, MaxChunks) :
           requests = <<Request(statusCode, headers, body, chunks, reactDevtoolsPort, 1)>>

\* a bodyChunks array that all responses share: the chunks of every response
\* go to the array of the first
PushShared(reqs, i, chunk) == [reqs EXCEPT ![1].bodyChunks = Append(@, chunk)]

\* bodyChunks.push(chunk): bodyChunks is a constant of the 'proxyRes' callback,
\* one array for each response
Push(reqs, i, chunk) == [reqs EXCEPT ![i].bodyChunks = Append(@, chunk)]

\* proxyRes.on('data', chunk => bodyChunks.push(chunk))
proxyResData(i) ==
    /\ requests[i].pending # <<>>
    /\ requests' = [Push(requests, i, Head(requests[i].pending)) EXCEPT
                       ![i].pending = Tail(@)]
    /\ UNCHANGED <<managerVars, browser>>

\* proxyRes.on('end', ...)
proxyResEnd(i) ==
    /\ requests[i].pending = <<>>
    /\ ~requests[i].res.written
    /\ requests' = [requests EXCEPT ![i].res =
           Intercepted(requests[i].proxyRes, requests[i].bodyChunks,
                       requests[i].reactDevtoolsPort)]
    /\ UNCHANGED <<managerVars, browser>>

\* proxy.on('proxyRes', ...) of an interceptor whose target is the response
\* request i delivered, written by one res.end(body)
proxyRes(i) ==
    /\ i = Len(requests)
    /\ requests[i].res.written
    /\ requests[i].pass < MaxPasses
    /\ requests' = Append(requests,
           Request(requests[i].res.statusCode, requests[i].res.headers,
                   requests[i].res.body,
                   IF requests[i].res.body = <<>> THEN <<>> ELSE <<requests[i].res.body>>,
                   requests[i].reactDevtoolsPort, requests[i].pass + 1))
    /\ UNCHANGED <<managerVars, browser>>

InterceptNext ==
    \/ \E i \in DOMAIN requests : proxyResData(i)
    \/ \E i \in DOMAIN requests : proxyResEnd(i)
    \/ \E i \in DOMAIN requests : proxyRes(i)

InterceptSpec == InterceptInit /\ [][InterceptNext]_vars

\* one page, every policy
CspInit ==
    /\ ManagerIdle
    /\ \E headers \in { [n \in {"content-type"} |-> "text/html; charset=utf-8"] @@ csp :
                          csp \in Field("content-security-policy", CspValues) } :
         requests = <<Request(200, headers, Page, <<Page>>, DefaultDevtoolsPort, 1)>>

CspSpec == CspInit /\ [][InterceptNext]_vars

\* ------------------------------------------------- proxy(): requests and errors

MaxRequests == 2       \* requests in flight through one proxy

\* err.code of a proxy error; "" when the error has no code
ErrorCodes == {"ECONNREFUSED", "ENOTFOUND", "ECONNRESET", "EPIPE", ""}

\* a test that knows the refused connection only
IsTargetNotUpRefusedOnly(code) == code = "ECONNREFUSED"

\* isTargetNotUp: String(err.code || '') includes one of the three codes
isTargetNotUp(code) ==
    \/ Includes(code, "ECONNREFUSED")
    \/ Includes(code, "ENOTFOUND")
    \/ Includes(code, "ECONNRESET")

\* { 'Content-Type': 'text/plain' }
PlainText == [n \in {"Content-Type"} |-> "text/plain"]

\* `Upstream server on port ${port} is not available. Please start it and try again.`
NotAvailable(port) == <<[name |-> "upstream-not-available", src |-> port, nonce |-> ""]>>

\* 'An unexpected error occurred while processing the proxy request.'
Unexpected == <<Node("unexpected-error")>>

\* the 'request' listener (proxyServer.web, kind "http") or the 'upgrade'
\* listener (proxyServer.ws, kind "socket") of the server of proxy x forwards a
\* request: the request with its response object, or with its socket only
Exchange(x, kind) ==
    [proxy |-> x, kind |-> kind, stage |-> "forwarded", error |-> "none",
     socket |-> "open",
     proxyRes |-> [statusCode |-> 0, headers |-> NoHeaders, body |-> <<>>],
     pending |-> <<>>, bodyChunks |-> <<>>, res |-> Unwritten,
     reactDevtoolsPort |-> sessions[proxies[x].owner].devtoolsPort, pass |-> 1]

\* a session whose proxy to the target port is bound, after one
\* startOrGetSession(port) that the 'listening' event resolved
ProxyUp(port) ==
    /\ sessions = << [NewSession(port, DefaultDevtoolsPort) EXCEPT
                         !.devtoolsPort = DefaultDevtoolsPort,
                         !.status = ServerConnected,
                         !.proxyResult = 1,
                         !.forwarders = ForwardedEvents] >>
    /\ proxies = << [NewProxy(1) EXCEPT !.state = "bound"] >>
    /\ registry = [p \in Ports |-> IF p = port THEN 1 ELSE 0]
    /\ activeSession = 1
    /\ activeSessionDisposables = Forwarders(1)
    /\ activeInspectedElement = "undefined"
    /\ calls = << [port |-> port, session |-> 1, prev |-> 0, waited |-> TRUE,
                   state |-> "resolved", value |-> BaseProxyPort] >>
    /\ occupied = {}
    /\ targets = Ports
    /\ proxyBudget = MaxManagerProxies
    /\ last = [op |-> "listening", session |-> 1, event |-> "status",
               fired |-> ServerConnected, forwarded |-> TRUE, backend |-> "none"]

ProxyInit ==
    /\ \E port \in Ports : ProxyUp(port)
    /\ requests = <<>>
    /\ browser = NoBrowser

\* http.createServer((req, res) => proxyServer.web(req, res)) and
\* server.on('upgrade', ...)
web(x, kind) ==
    /\ proxies[x].state = "bound"
    /\ Len(requests) < MaxRequests
    /\ requests' = Append(requests, Exchange(x, kind))
    /\ UNCHANGED <<managerVars, browser>>

\* proxy.on('proxyRes', ...): the response of the target server to request i
\* begins
proxyResBegins(i, statusCode, headers, body, chunks) ==
    /\ requests[i].stage = "forwarded"
    /\ requests[i].kind = "http"
    /\ requests' = [requests EXCEPT
           ![i].stage = "responding",
           ![i].proxyRes = [statusCode |-> statusCode, headers |-> headers, body |-> body],
           ![i].pending = chunks]
    /\ UNCHANGED <<managerVars, browser>>

\* proxyServer.on('error', (err, req, res) => ...)
proxyError(i, code) ==
    /\ requests[i].stage = "forwarded"
    /\ LET port == sessions[proxies[requests[i].proxy].owner].port
       IN  requests' = [requests EXCEPT
               ![i].stage = "failed",
               ![i].error = code,
               ![i].res = IF requests[i].kind = "http"
                          THEN IF isTargetNotUp(code)
                               THEN Written(503, PlainText, NotAvailable(port))
                               ELSE Written(500, PlainText, Unexpected)
                          ELSE @,
               ![i].socket = IF requests[i].kind = "http" THEN @ ELSE "destroyed"]
    /\ UNCHANGED <<managerVars, browser>>

\* the responses of the target server to the requests through the proxy: a
\* page and a JSON document
Json == <<Node("{"), Node("}")>>
ProxiedResponses ==
    { [headers |-> [n \in {"content-type"} |-> "text/html; charset=utf-8"], body |-> Page],
      [headers |-> [n \in {"content-type"} |-> "application/json"], body |-> Json] }

ProxyNext ==
    \/ \E x \in DOMAIN proxies : \E kind \in {"http", "socket"} : web(x, kind)
    \/ \E i \in DOMAIN requests : \E response \in ProxiedResponses :
          \E chunks \in Chunkings(response.body, MaxChunks) :
             proxyResBegins(i, 200, response.headers, response.body, chunks)
    \/ \E i \in DOMAIN requests : proxyResData(i)
    \/ \E i \in DOMAIN requests : requests[i].stage = "responding" /\ proxyResEnd(i)
    \/ \E i \in DOMAIN requests : \E code \in ErrorCodes : proxyError(i, code)

ProxySpec == ProxyInit /\ [][ProxyNext]_vars

\* --------------------------------------------------------- SimpleBrowserManager

MaxShows == 3          \* show() calls
MaxViews == 2          \* views created or restored
MaxOpening == 2        \* openUrl calls that await startOrGetSession

\* the URLs a page is opened with, named by the port of its dev server
Urls == Ports

\* a SimpleBrowserView: the url it shows, whether it was disposed, the show()
\* calls it has served and the listeners the manager holds on its onUrlChange
View(url) == [url |-> url, disposed |-> FALSE, shown |-> 0, onUrlChange |-> 0]

\* view.onDispose listener of registerWebviewListeners, run by view.dispose()
Disposed(b, v) ==
    [b EXCEPT !.views[v].disposed = TRUE,
              !.activeView = IF @ = v THEN 0 ELSE @]

\* this._activeView.onUrlChange(listener): one more listener on the active view
Subscribe(b) == [b EXCEPT !.views[b.activeView].onUrlChange = @ + 1]

\* SimpleBrowserManager.show
Show(b, url) ==
    LET created == b.activeView = 0
        b1 == IF created
              THEN [b EXCEPT !.views = Append(@, View(url)),
                             !.activeView = Len(b.views) + 1]
              ELSE [b EXCEPT !.views[b.activeView].url = url]
        b2 == [b1 EXCEPT !.views[b1.activeView].shown = @ + 1, !.shows = @ + 1]
    IN  Subscribe(b2)

RemoveAt(seq, i) == SubSeq(seq, 1, i - 1) \o SubSeq(seq, i + 1, Len(seq))

\* n calls of openUrl(url), each suspended in await startOrGetSession
OpenUrl(b, url, n) ==
    [b EXCEPT !.opening = @ \o [k \in 1 .. n |-> url]]

\* the show-browser command: openUrl(url)
showBrowserCommand(url) ==
    /\ Len(browser.opening) < MaxOpening
    /\ browser' = [OpenUrl(browser, url, 1) EXCEPT !.urlChange = NoBrowser.urlChange]
    /\ UNCHANGED <<managerVars, requests>>

\* openUrl resumes with the proxy port: simpleBrowserManager.show(proxyedUrl.href)
openUrlShows(i) ==
    /\ i \in DOMAIN browser.opening
    /\ browser.shows < MaxShows
    /\ browser.activeView = 0 => Len(browser.views) < MaxViews
    /\ browser' = [Show([browser EXCEPT !.opening = RemoveAt(@, i)], browser.opening[i])
                      EXCEPT !.urlChange = NoBrowser.urlChange]
    /\ UNCHANGED <<managerVars, requests>>

\* startOrGetSession rejects: openUrl shows the error message and no page
openUrlFails(i) ==
    /\ i \in DOMAIN browser.opening
    /\ browser' = [browser EXCEPT !.opening = RemoveAt(@, i),
                                  !.urlChange = NoBrowser.urlChange]
    /\ UNCHANGED <<managerVars, requests>>

\* SimpleBrowserManager.restore
restore(url) ==
    /\ Len(browser.views) < MaxViews
    /\ browser' = [browser EXCEPT !.views = Append(@, View(url)),
                                  !.activeView = IF @ = 0 THEN Len(browser.views) + 1 ELSE @,
                                  !.urlChange = NoBrowser.urlChange]
    /\ UNCHANGED <<managerVars, requests>>

\* view v reports a URL change: each listener the manager holds on the view
\* fires the manager's onUrlChange once, and each of these events calls openUrl
viewUrlChange(v, url) ==
    /\ v \in DOMAIN browser.views
    /\ ~browser.views[v].disposed
    /\ Len(browser.opening) + browser.views[v].onUrlChange <= MaxOpening
    /\ browser' = [OpenUrl([browser EXCEPT !.views[v].url = url], url,
                           browser.views[v].onUrlChange)
                      EXCEPT !.urlChange = [view |-> v, url |-> url,
                                            fired |-> browser.views[v].onUrlChange]]
    /\ UNCHANGED <<managerVars, requests>>

\* the user closes the panel of view v
viewDispose(v) ==
    /\ v \in DOMAIN browser.views
    /\ ~browser.views[v].disposed
    /\ browser' = [Disposed(browser, v) EXCEPT !.urlChange = NoBrowser.urlChange]
    /\ UNCHANGED <<managerVars, requests>>

\* SimpleBrowserManager.disposeViews
disposeViews ==
    /\ browser.activeView # 0
    /\ browser' = [Disposed(browser, browser.activeView) EXCEPT
                      !.activeView = 0, !.urlChange = NoBrowser.urlChange]
    /\ UNCHANGED <<managerVars, requests>>

BrowserInit ==
    /\ ManagerIdle
    /\ requests = <<>>

BrowserNext ==
    \/ \E url \in Urls : showBrowserCommand(url)
    \/ \E i \in 1 .. MaxOpening : openUrlShows(i)
    \/ \E i \in 1 .. MaxOpening : openUrlFails(i)
    \/ \E url \in Urls : restore(url)
    \/ \E v \in 1 .. MaxViews : \E url \in Urls : viewUrlChange(v, url)
    \/ \E v \in 1 .. MaxViews : viewDispose(v)
    \/ disposeViews

BrowserSpec == BrowserInit /\ [][BrowserNext]_vars

\* ------------------------------------------------------------------ claims

BoundProxies(s) == {x \in DOMAIN proxies : proxies[x].owner = s /\ proxies[x].state = "bound"}
CompletedProxies(s) ==
    {x \in DOMAIN proxies : proxies[x].owner = s /\ proxies[x].state \in {"bound", "closed"}}

\* C1: startOrGetSession is memoized by target port: the registry holds exactly
\* one session object per target port ever requested, every call uses the
\* registered session of its port, and a call made immediately after a call
\* with the same port uses the same session and has the same outcome (the same
\* proxy port).
C1_MemoizedByPort ==
    /\ \A p \in Ports : (registry[p] # 0) <=> (\E c \in DOMAIN calls : calls[c].port = p)
    /\ Len(sessions) = Cardinality({p \in Ports : registry[p] # 0})
    /\ \A p \in Ports : registry[p] # 0 => sessions[registry[p]].port = p
    /\ \A c \in DOMAIN calls : calls[c].session = registry[calls[c].port]
    /\ \A c \in DOMAIN calls : calls[c].prev # 0 =>
          /\ calls[calls[c].prev].port = calls[c].port
          /\ calls[calls[c].prev].session = calls[c].session
          /\ calls[calls[c].prev].state = calls[c].state
          /\ calls[calls[c].prev].value = calls[c].value

C1_Witness ==
    \E c \in DOMAIN calls :
        /\ calls[c].prev # 0
        /\ calls[c].state = "resolved" /\ calls[c].value # 0
        /\ calls[calls[c].prev].state = "resolved"

C3_OneProxyPerSession ==
    \A s \in DOMAIN sessions : Cardinality(BoundProxies(s)) <= 1

\* C4: a pending startOrGetSession call is resolved by the first
\* ServerConnected event of its session fired while proxyPort is defined, with
\* that proxyPort, is rejected by an Error event of its session, and is
\* settled by nothing else.
C4_PendingSettles ==
    [][\A c \in DOMAIN calls :
          calls[c].state = "pending" =>
            LET s == calls[c].session
                port == ProxyPort(sessions', proxies', s)
                fired == IF last'.session = s THEN last'.fired ELSE "none"
            IN  /\ (fired = ServerConnected /\ port # 0)
                      => (calls'[c].state = "resolved" /\ calls'[c].value = port)
                /\ fired = Error => calls'[c].state = "rejected"
                /\ calls'[c].state # "pending"
                      => (fired = Error \/ (fired = ServerConnected /\ port # 0))
      ]_vars

C4_Witness ==
    \E c, d \in DOMAIN calls :
        /\ calls[c].waited /\ calls[c].state = "resolved" /\ calls[c].value # 0
        /\ calls[d].waited /\ calls[d].state = "rejected"

\* C5: once a startOrGetSession promise has settled, by resolution or by
\* rejection, the status listener of that call is no longer subscribed.
C5_ListenerDisposedOnSettle ==
    \A c \in DOMAIN calls :
        calls[c].state # "pending" =>
            \A s \in DOMAIN sessions : c \notin sessions[s].waiters

\* C6: a startOrGetSession call made while the session is ServerConnected
\* with a defined proxyPort resolves at once with that proxyPort and
\* subscribes no status listener.
C6_ImmediateResolve ==
    [][(Len(calls') = Len(calls) + 1) =>
          LET c == Len(calls')
              s == calls'[c].session
          IN  (/\ s \in DOMAIN sessions
               /\ sessions[s].status = ServerConnected
               /\ ProxyPort(sessions, proxies, s) # 0)
              => /\ calls'[c].state = "resolved"
                 /\ calls'[c].value = ProxyPort(sessions, proxies, s)
                 /\ c \notin sessions'[s].waiters
      ]_vars

C6_Witness ==
    \E c \in DOMAIN calls :
        /\ ~calls[c].waited
        /\ calls[c].state = "resolved"
        /\ calls[c].value = BaseProxyPort + 1

ValidTransition(a, b) ==
    \/ a = b
    \/ b = Error
    \/ <<a, b>> \in { <<Idle, ServerConnected>>,
                      <<ServerConnected, DevtoolsConnected>>,
                      <<DevtoolsConnected, ServerConnected>> }

\* C7: a session's status starts at Idle and changes only along
\* Idle -> ServerConnected, ServerConnected -> DevtoolsConnected,
\* DevtoolsConnected -> ServerConnected and any -> Error.
C7_ValidTransitions ==
    [][\A s \in DOMAIN sessions' :
          IF s \in DOMAIN sessions
          THEN ValidTransition(sessions[s].status, sessions'[s].status)
          ELSE sessions'[s].status = Idle
      ]_vars

\* C8: a disconnect while DevtoolsConnected invokes the cleanup of the current
\* proxy, sets the status to ServerConnected and starts a fresh proxy; a proxy
\* that was cleaned up is never bound again, and every proxy the session
\* records afterwards is an instance that had not completed before.
C8_DisconnectRestartsProxy ==
    [][/\ \A s \in DOMAIN sessions :
            (/\ last'.op = "onDidDisconnect" /\ last'.session = s
             /\ sessions[s].status = DevtoolsConnected
             /\ sessions[s].proxyResult # 0)
            => /\ proxies'[sessions[s].proxyResult].state = "closed"
               /\ sessions'[s].status = ServerConnected
               /\ Len(proxies') = Len(proxies) + 1
               /\ proxies'[Len(proxies')] = NewProxy(s)
       /\ \A x \in DOMAIN proxies :
            proxies[x].state = "closed" => proxies'[x].state = "closed"
       /\ \A s \in DOMAIN sessions :
            sessions'[s].proxyResult # sessions[s].proxyResult
            => proxies[sessions'[s].proxyResult].state = "starting"
      ]_vars

C8_Witness ==
    \E s \in DOMAIN sessions :
        /\ last.op = "onDidDisconnect" /\ last.session = s
        /\ sessions[s].status = ServerConnected
        /\ sessions[s].proxyResult # 0
        /\ proxies[sessions[s].proxyResult].state = "closed"
        /\ \E x \in DOMAIN proxies : proxies[x].owner = s /\ proxies[x].state = "starting"

\* C9: a ServerConnected status event is fired only by the completion of the
\* proxy start, when proxyPort is set: none is delivered while proxyPort is
\* undefined.
C9_ServerConnectedAfterProxy ==
    last.fired = ServerConnected =>
        /\ last.op = "listening"
        /\ ProxyPort(sessions, proxies, last.session) # 0
        /\ proxies[sessions[last.session].proxyResult].state = "bound"

C9_Witness ==
    /\ last.fired = ServerConnected
    /\ last.forwarded
    /\ ProxyPort(sessions, proxies, last.session) = BaseProxyPort

\* C10: when a session's proxy start has failed because the bind attempts are
\* exhausted, a pending startOrGetSession call of that session is eventually
\* rejected (at the latest when the session is disposed).
C10_ExhaustionSurfaced ==
    \A c \in 1 .. MaxCalls :
        [](( /\ c \in DOMAIN calls
             /\ calls[c].state = "pending"
             /\ \E x \in DOMAIN proxies :
                   /\ proxies[x].owner = calls[c].session
                   /\ proxies[x].state = "rejected"
                   /\ proxies[x].error = "EADDRINUSE" )
           => <>(/\ c \in DOMAIN calls
                 /\ \/ calls[c].state = "rejected"
                    \/ sessions[calls[c].session].stopped))

\* a port that another program holds or that a listener of this program has held
EverHeld(q) ==
    \/ q \in occupied
    \/ \E y \in DOMAIN proxies :
          proxies[y].state \in {"bound", "closed"} /\ proxies[y].proxyPort = q

\* C11: a proxy start begins at port 8000 and moves to the next higher port on
\* each EADDRINUSE failure and on nothing else; it resolves with port 8000 plus
\* the number of EADDRINUSE failures, a port that is free while every lower
\* candidate was held; it rejects with the bind error it received, and with
\* EADDRINUSE only when the last candidate port is held too.
C11_PortRetry ==
    [][\A x \in DOMAIN proxies :
          proxies[x].state = "starting" =>
            /\ proxies[x].proxyPort = BaseProxyPort + proxies[x].attempt
            /\ \A q \in BaseProxyPort .. (proxies[x].proxyPort - 1) : EverHeld(q)
            /\ proxies'[x].state = "starting" =>
                  \/ proxies'[x] = proxies[x]
                  \/ /\ HeldPort(proxies[x].proxyPort)
                     /\ proxies'[x].proxyPort = proxies[x].proxyPort + 1
                     /\ proxies'[x].attempt = proxies[x].attempt + 1
            /\ proxies'[x].state = "bound" =>
                  /\ ~HeldPort(proxies[x].proxyPort)
                  /\ proxies'[x].proxyPort = BaseProxyPort + proxies[x].attempt
            /\ proxies'[x].state = "rejected" =>
                  \/ proxies'[x].error \in ListenErrors \ {"EADDRINUSE"}
                  \/ /\ proxies'[x].error = "EADDRINUSE"
                     /\ HeldPort(proxies[x].proxyPort)
                     /\ proxies[x].proxyPort = BaseProxyPort + maxAttempts
      ]_vars

C11_Witness ==
    \E x \in DOMAIN proxies :
        /\ proxies[x].state = "bound"
        /\ BaseProxyPort \in occupied
        /\ proxies[x].proxyPort = BaseProxyPort + 1

\* the listen calls a pending proxy start has made: one per tryListen, and
\* attempt counts the tryListen calls after the first
ListenAttempts(x) == proxies[x].attempt + 1

\* C12: one proxy start makes at most 10 (maxAttempts) listen attempts before
\* it rejects.
C12_ListenAttemptsBounded ==
    \A x \in DOMAIN proxies :
        proxies[x].state = "starting" => ListenAttempts(x) <= maxAttempts

\* C13: each failed bind attempt releases its proxy/listener pair before the
\* next pair is created: a proxy start holds exactly one un-released pair while
\* it is listening, never more than one, and none once it has rejected.
C13_TeardownBeforeRetry ==
    \A x \in DOMAIN proxies :
        /\ proxies[x].pairs <= 1
        /\ proxies[x].state = "starting" => proxies[x].pairs = 1
        /\ proxies[x].state = "rejected" => proxies[x].pairs = 0

C13_Witness ==
    \E x \in DOMAIN proxies :
        /\ proxies[x].state = "rejected"
        /\ proxies[x].error = "EADDRINUSE"
        /\ proxies[x].pairs = 0

\* C14: every dispose() of a session, the first and each later one, leaves the
\* session with no bound proxy listener and with its backend stopped.
C14_DisposeReleases ==
    [][last'.op = "dispose" =>
          \A s \in RegisteredSessions :
              /\ sessions'[s].stopped
              /\ \A x \in DOMAIN proxies' :
                    proxies'[x].owner = s => proxies'[x].state # "bound"
      ]_vars

\* C15: no forwarder subscription remains on a session that is not the active
\* one: when the active session changes, the forwarders of the previous one are
\* all disposed, and every handle the manager keeps is a subscription on the
\* active session.
C15_NoLeakedForwarders ==
    /\ \A s \in DOMAIN sessions : s # activeSession => sessions[s].forwarders = {}
    /\ \A i \in DOMAIN activeSessionDisposables :
          activeSessionDisposables[i].session = activeSession

C15_Witness ==
    /\ Len(sessions) = 2
    /\ activeSession = 2
    /\ sessions[1].forwarders = {}
    /\ sessions[2].forwarders = ForwardedEvents

\* C16 as stated: every status, inspected-element and inspect-host event of
\* the active session is re-broadcast as an active-session event, and no event
\* of another session is.
C16_ActiveEventsForwarded ==
    last.event # "none" => (last.forwarded <=> last.session = activeSession)

\* C16 (amended): until the manager is disposed, every status,
\* inspected-element and inspect-host event of the active session is
\* re-broadcast by the one forwarder subscribed for it, also after repeated
\* startOrGetSession calls for the active port; an event of another session is
\* never re-broadcast, and after the manager's disposal no event is.
C16_ActiveEventsForwardedUntilDisposed ==
    /\ last.event # "none" =>
          (last.forwarded <=>
              (last.session = activeSession /\ activeSessionDisposables # <<>>))
    /\ activeSession # 0 /\ activeSessionDisposables # <<>> =>
          /\ sessions[activeSession].forwarders = {"status", "inspectedElement", "inspectHost"}
          /\ \A e \in {"status", "inspectedElement", "inspectHost"} :
                Cardinality({i \in DOMAIN activeSessionDisposables :
                                activeSessionDisposables[i] =
                                    [session |-> activeSession, event |-> e]}) = 1

C16_Witness ==
    /\ last.event = "inspectedElement"
    /\ last.forwarded
    /\ last.session = activeSession
    /\ Len(calls) = 2
    /\ calls[1].session = activeSession
    /\ calls[2].session = activeSession

\* C17: the active-session pointer is undefined or refers to a session that
\* the registry holds under that session's target port.
C17_ActiveSessionRegistered ==
    \/ activeSession = 0
    \/ /\ activeSession \in DOMAIN sessions
       /\ registry[sessions[activeSession].port] = activeSession

C17_Witness ==
    /\ Len(sessions) = 2
    /\ activeSession = 2
    /\ registry[sessions[2].port] = 2
    /\ sessions[2].stopped

\* C18: a new session is constructed with the suggested backend port (the
\* maximum of the backend ports known across the existing sessions) + 1, or
\* with the default 8097 when no backend port is known.
C18_SuggestedBackendPort ==
    [][Len(sessions') = Len(sessions) + 1 =>
          LET known == {sessions[t].devtoolsPort : t \in DOMAIN sessions} \ {0}
              new == sessions'[Len(sessions')]
          IN  new.suggestedDevtoolsPort =
                  IF known = {} THEN 8097 ELSE Max(known) + 1
      ]_vars

C18_Witness ==
    /\ Len(sessions) = 2
    /\ sessions[1].port = 3000
    /\ sessions[1].devtoolsPort = 8097
    /\ sessions[2].port = 3001
    /\ sessions[2].suggestedDevtoolsPort = 8098

\* C19: a session that reaches or is in Error status stays in the registry
\* under its target port, and a startOrGetSession call for that port made
\* while it is in Error uses that same session and creates none.
C19_ErrorSessionKept ==
    [][/\ \A p \in Ports :
            (/\ registry[p] # 0
             /\ \/ sessions[registry[p]].status = Error
                \/ sessions'[registry[p]].status = Error)
            => registry'[p] = registry[p]
       /\ Len(calls') = Len(calls) + 1 =>
            LET c == Len(calls')
                p == calls'[c].port
            IN  (registry[p] # 0 /\ sessions[registry[p]].status = Error)
                => /\ calls'[c].session = registry[p]
                   /\ activeSession' = registry[p]
                   /\ Len(sessions') = Len(sessions)
      ]_vars

C19_Witness ==
    /\ Len(calls) = 2
    /\ last.op = "startOrGetSession"
    /\ calls[1].state = "rejected"
    /\ calls[2].session = calls[1].session
    /\ sessions[calls[2].session].status = Error
    /\ registry[calls[2].port] = calls[2].session

\* C20: activeInspectedElement is the most recent non-null inspection result
\* that the active session delivered, and it is reset to undefined when the
\* active session changes.
C20_TracksInspectionResult ==
    [][/\ (/\ last'.event = "inspectedElement"
            /\ last'.session = activeSession'
            /\ last'.forwarded
            /\ last'.fired # "null")
           => activeInspectedElement' = last'.fired
       /\ activeSession' # activeSession => activeInspectedElement' = "undefined"
      ]_vars

\* the responses the interceptor has delivered
Delivered == {i \in DOMAIN requests : requests[i].res.written}

\* the upstream response is HTML: its content-type contains text/html in any case
UpstreamIsHtml(i) ==
    /\ "content-type" \in DOMAIN requests[i].proxyRes.headers
    /\ requests[i].proxyRes.headers["content-type"] \in {"text/html; charset=utf-8", "Text/HTML"}

\* C21: a response whose content-type does not contain text/html is delivered
\* with the upstream status, the upstream headers (none added, removed or
\* changed) and the bytes the target server sent, in the order of the chunks,
\* not decompressed and not parsed.
C21_NonHtmlPassThrough ==
    \A i \in Delivered :
        ~UpstreamIsHtml(i) =>
            /\ requests[i].res.statusCode = requests[i].proxyRes.statusCode
            /\ requests[i].res.headers = requests[i].proxyRes.headers
            /\ requests[i].res.body = requests[i].proxyRes.body

\* a compressed 404 JSON response that came in two chunks was delivered
C21_Witness ==
    \E i \in Delivered :
        /\ ~UpstreamIsHtml(i)
        /\ requests[i].proxyRes.statusCode = 404
        /\ Len(requests[i].bodyChunks) = 2
        /\ "content-encoding" \in DOMAIN requests[i].proxyRes.headers
        /\ requests[i].proxyRes.body[1].name = "gzip"

\* the text the interceptor parses, when the body decodes
DecodedBody(i) ==
    Decompressed(ToLowerCase(Get(requests[i].proxyRes.headers, "content-encoding")),
                 requests[i].proxyRes.body)

\* the document of an HTML response lacks its html node or its head node
LacksHtmlOrHead(i) ==
    /\ UpstreamIsHtml(i)
    /\ DecodedBody(i).ok
    /\ \/ ~HtmlNode(ToStringUtf8(DecodedBody(i).value))
       \/ ~HeadNode(ToStringUtf8(DecodedBody(i).value))

DeclaredEncoding(i) ==
    IF "content-encoding" \in DOMAIN requests[i].proxyRes.headers
    THEN IF requests[i].proxyRes.headers["content-encoding"] = "GZIP"
         THEN "gzip" ELSE requests[i].proxyRes.headers["content-encoding"]
    ELSE ""

\* the body is not a stream of the encoding the response declares
FailsToDecompress(i) ==
    /\ DeclaredEncoding(i) \in {"gzip", "deflate", "br"}
    /\ requests[i].proxyRes.body # <<Node(DeclaredEncoding(i)), Node("stream")>>

\* C23: an HTML response whose body fails to decompress under the encoding it
\* declares is delivered with the upstream status, the upstream headers
\* (content-encoding included) and the raw, undecoded body: the body is not
\* dropped and no script is injected.
C23_DecompressionFailurePassThrough ==
    \A i \in Delivered :
        (UpstreamIsHtml(i) /\ FailsToDecompress(i)) =>
            /\ requests[i].res.statusCode = requests[i].proxyRes.statusCode
            /\ requests[i].res.headers = requests[i].proxyRes.headers
            /\ requests[i].res.body = requests[i].proxyRes.body

\* a plain page declared GZIP, arriving in two chunks, was delivered
C23_Witness ==
    \E i \in Delivered :
        /\ UpstreamIsHtml(i)
        /\ FailsToDecompress(i)
        /\ Len(requests[i].bodyChunks) = 2
        /\ requests[i].proxyRes.body = Page
        /\ requests[i].proxyRes.headers["content-encoding"] = "GZIP"

\* the policy of the upstream response as one string, <<>> without the header
UpstreamPolicy(i) ==
    IF "content-security-policy" \in DOMAIN requests[i].proxyRes.headers
    THEN LET csp == requests[i].proxyRes.headers["content-security-policy"]
         IN  IF csp.array THEN Join(csp.items) ELSE csp.items[1]
    ELSE <<>>

\* the nonces of the directives named script-src or default-src (and not of a
\* directive whose name only begins so)
DirectiveNonces(s) ==
    { s[k] : k \in { k \in DOMAIN s :
        /\ s[k] \in {"'nonce-abc'", "'nonce-xyz'"}
        /\ \E i \in 1 .. (k - 1) :
              /\ s[i] \in {"script-src", "default-src"}
              /\ s[i + 1] # "-elem"
              /\ \A j \in i .. k : s[j] # ";" } }

\* the page with the two scripts as the last children of its head
InjectedPage(port, nonce) ==
    <<Node("html"), Node("head"),
      [name |-> "script", src |-> port, nonce |-> ""],
      [name |-> "navigation-script", src |-> 0, nonce |-> nonce],
      Node("/head"), Node("body")>>

\* C24: a page with html and head is delivered with exactly two more nodes,
\* the last children of head: the devtools script with the backend port as
\* its src, then the navigation script, whose nonce is a nonce of the
\* script-src or default-src directive of the policy if there is one and which
\* has no nonce otherwise.
C24_TwoScriptsInOrder ==
    \A i \in Delivered :
        requests[i].proxyRes.body = Page =>
            \E nonce \in {"", "abc", "xyz"} :
                /\ requests[i].res.body = InjectedPage(requests[i].reactDevtoolsPort, nonce)
                /\ IF DirectiveNonces(UpstreamPolicy(i)) = {}
                   THEN nonce = ""
                   ELSE \E a \in DirectiveNonces(UpstreamPolicy(i)) :
                            a = "'nonce-" \o nonce \o "'"

\* the response is one the interceptor rewrites: HTML that decodes to a
\* document with html and head
Rewritten(i) ==
    /\ UpstreamIsHtml(i)
    /\ DecodedBody(i).ok
    /\ HtmlNode(ToStringUtf8(DecodedBody(i).value))
    /\ HeadNode(ToStringUtf8(DecodedBody(i).value))

\* C25: the headers of a rewritten response are the upstream headers without
\* transfer-encoding and content-encoding, with content-length set to the byte
\* length of the body delivered, and with content-security-policy, if the
\* upstream has it, replaced by its relaxed form; every other header is
\* unchanged and no other header is added.
C25_HeaderFrame ==
    \A i \in Delivered :
        Rewritten(i) =>
            LET up == requests[i].proxyRes.headers
                out == requests[i].res.headers
            IN  /\ DOMAIN out =
                     (DOMAIN up \ {"transfer-encoding", "content-encoding"})
                         \cup {"content-length"}
                /\ out["content-length"] = ByteLength(requests[i].res.body)
                /\ \A n \in DOMAIN out \ {"content-length", "content-security-policy"} :
                       out[n] = up[n]
                /\ "content-security-policy" \in DOMAIN up =>
                       out["content-security-policy"] =
                           [array |-> FALSE, items |-> <<RelaxCsp(UpstreamPolicy(i))>>]

\* a chunked gzip page with an etag and an array-valued policy was rewritten
C25_Witness ==
    \E i \in Delivered :
        /\ Rewritten(i)
        /\ requests[i].pass = 1
        /\ requests[i].proxyRes.body = <<Node("gzip"), Node("stream")>>
        /\ DOMAIN requests[i].proxyRes.headers =
               {"etag", "content-type", "content-encoding", "transfer-encoding",
                "content-security-policy"}
        /\ requests[i].proxyRes.headers["content-security-policy"].array
        /\ requests[i].res.headers["etag"] = "W/1"

\* the policy of the response delivered
DeliveredPolicy(i) == requests[i].res.headers["content-security-policy"].items[1]

\* the text names the directive
Names(s, directive) == \E k \in DOMAIN s : s[k] = directive

\* C26: when the policy of the upstream response, a string or an array joined
\* with "; ", has a frame-ancestors directive, the policy delivered has none.
C26_NoFrameAncestors ==
    \A i \in Delivered :
        (Rewritten(i) /\ Names(UpstreamPolicy(i), "frame-ancestors")) =>
            ~Names(DeliveredPolicy(i), "frame-ancestors")

\* the places where a directive of exactly this name begins
DirectivesNamed(s, name) ==
    { i \in DOMAIN s : s[i] = name /\ (i = Len(s) \/ s[i + 1] # "-elem") }

\* the tokens of the directive that begins at i
TokensAt(s, i) == { s[k] : k \in { k \in i .. Len(s) : \A j \in i .. k : s[j] # ";" } }

\* the first directive of this name has both tokens
Relaxed(s, name) ==
    /\ DirectivesNamed(s, name) # {}
    /\ {"'unsafe-inline'", "'unsafe-eval'"} \subseteq
           TokensAt(s, CHOOSE i \in DirectivesNamed(s, name) :
                          \A j \in DirectivesNamed(s, name) : i <= j)

\* C27: when the policy of the upstream response has a script-src directive,
\* the script-src directive of the policy delivered contains 'unsafe-inline'
\* and 'unsafe-eval', whatever other directives the policy has and whether or
\* not script-src has values.
C27_ScriptSrcRelaxed ==
    \A i \in Delivered :
        (Rewritten(i) /\ requests[i].pass = 1
           /\ DirectivesNamed(UpstreamPolicy(i), "script-src") # {}) =>
            Relaxed(DeliveredPolicy(i), "script-src")

\* "default-src 'self'; frame-ancestors 'none'"
ExamplePolicy ==
    <<"default-src", " ", "'self'", ";", " ", "frame-ancestors", " ", "'none'">>

\* "default-src 'self' 'unsafe-inline' 'unsafe-eval'; "
ExampleRelaxed ==
    <<"default-src", " ", "'self'", " ", "'unsafe-inline'", " ", "'unsafe-eval'", ";", " ">>

\* C28: when the policy of the upstream response has no script-src directive,
\* the policy delivered is the upstream policy with frame-ancestors removed and
\* 'unsafe-inline' 'unsafe-eval' appended to its default-src directive, and
\* nothing else changed; "default-src 'self'; frame-ancestors 'none'" becomes
\* "default-src 'self' 'unsafe-inline' 'unsafe-eval'; ".
C28_DefaultSrcRelaxed ==
    \A i \in Delivered :
        (Rewritten(i) /\ requests[i].pass = 1
           /\ "content-security-policy" \in DOMAIN requests[i].proxyRes.headers
           /\ DirectivesNamed(UpstreamPolicy(i), "script-src") = {}) =>
            /\ DeliveredPolicy(i) =
                   AppendUnsafe(RemoveFrameAncestors(UpstreamPolicy(i)), "default-src")
            /\ UpstreamPolicy(i) = ExamplePolicy => DeliveredPolicy(i) = ExampleRelaxed

\* C29: the relaxation of a policy that was already relaxed changes nothing:
\* an interceptor that receives the response of another delivers the policy it
\* received.
C29_RelaxationIdempotent ==
    \A i \in Delivered :
        (Rewritten(i) /\ requests[i].pass > 1
           /\ "content-security-policy" \in DOMAIN requests[i].proxyRes.headers) =>
            DeliveredPolicy(i) = UpstreamPolicy(i)

\* the nodes of the body with this name
NodesNamed(body, name) == {k \in DOMAIN body : body[k].name = name}

\* C30: the injection into a page that already has the two scripts adds
\* nothing: after two passes the page has one devtools script and one
\* navigation script.
C30_InjectionIdempotent ==
    \A i \in Delivered :
        (Rewritten(i) /\ requests[i].pass = 2) =>
            /\ Cardinality(NodesNamed(requests[i].res.body, "script")) = 1
            /\ Cardinality(NodesNamed(requests[i].res.body, "navigation-script")) = 1

\* the requests for which the proxy reported an error
Failed == {i \in DOMAIN requests : requests[i].stage = "failed"}

\* C31: a proxy error for a request with a response object is answered 503
\* with a message naming the target port when the code is ECONNREFUSED,
\* ENOTFOUND or ECONNRESET and 500 for any other error; for a request with a
\* socket only the socket is destroyed and nothing is written; the listener
\* stays bound and the session keeps its status and its proxy port.
C31_ProxyErrorAnswered ==
    \A i \in Failed :
        LET s == proxies[requests[i].proxy].owner IN
        /\ requests[i].kind = "http" =>
              /\ requests[i].res.written
              /\ requests[i].socket = "open"
              /\ IF requests[i].error \in {"ECONNREFUSED", "ENOTFOUND", "ECONNRESET"}
                 THEN /\ requests[i].res.statusCode = 503
                      /\ \E k \in DOMAIN requests[i].res.body :
                             requests[i].res.body[k].src = sessions[s].port
                 ELSE requests[i].res.statusCode = 500
        /\ requests[i].kind = "socket" =>
              /\ ~requests[i].res.written
              /\ requests[i].socket = "destroyed"
        /\ proxies[requests[i].proxy].state = "bound"
        /\ sessions[s].status = ServerConnected
        /\ sessions[s].proxyResult = requests[i].proxy
        /\ proxies[requests[i].proxy].proxyPort = BaseProxyPort

\* through the proxy of target 3001 an ENOTFOUND was answered and the socket
\* of an upgrade request was destroyed on ECONNRESET
C31_Witness ==
    \E i, j \in Failed :
        /\ sessions[1].port = 3001
        /\ requests[i].kind = "http" /\ requests[i].error = "ENOTFOUND"
        /\ requests[i].res.statusCode = 503
        /\ requests[j].kind = "socket" /\ requests[j].error = "ECONNRESET"
        /\ requests[j].socket = "destroyed"

\* C32: with several requests in flight through one proxy, the chunks a
\* response has received are its own, in the order of arrival; a response is
\* written only after its own end, from its own complete body; and a response
\* that was written is not written again.
C32_ResponsesIndependent ==
    /\ [](\A i \in DOMAIN requests :
            /\ Concat(requests[i].bodyChunks) \o Concat(requests[i].pending)
                   = requests[i].proxyRes.body
            /\ (requests[i].res.written /\ requests[i].stage = "responding") =>
                   /\ requests[i].pending = <<>>
                   /\ requests[i].res.statusCode = 200
                   /\ requests[i].res.body =
                          IF requests[i].proxyRes.body = Page
                          THEN InjectedPage(requests[i].reactDevtoolsPort, "")
                          ELSE requests[i].proxyRes.body
            /\ (requests[i].res.written /\ requests[i].stage = "failed") =>
                   requests[i].bodyChunks = <<>>)
    /\ [][\A i \in DOMAIN requests :
            requests[i].res.written => requests'[i].res = requests[i].res]_vars

\* the JSON response of the second request arrived in two chunks and was
\* delivered between the two chunks of the page of the first
C32_Witness ==
    /\ Len(requests) = 2
    /\ requests[1].proxyRes.body = Page /\ requests[2].proxyRes.body = Json
    /\ Len(requests[1].bodyChunks) = 1 /\ Len(requests[1].pending) = 1
    /\ Len(requests[2].bodyChunks) = 2 /\ requests[2].res.written

\* C33: startInspectingHost on the active session fires inspect-host-change
\* (inspecting) in the same step in which it gives the command to the backend;
\* stopInspectingHost gives its command and fires nothing; without an active
\* session both fire nothing and give no command.
C33_InspectingHost ==
    [][/\ last'.op = "startInspectingHost" =>
            IF activeSession = 0
            THEN last'.event = "none" /\ last'.backend = "none"
            ELSE /\ last'.session = activeSession
                 /\ last'.event = "inspectHost" /\ last'.fired = "inspecting"
                 /\ last'.backend = "startInspectingHost"
       /\ last'.op = "stopInspectingHost" =>
            /\ last'.event = "none"
            /\ last'.backend = IF activeSession = 0 THEN "none" ELSE "stopInspectingHost"]_vars

\* startInspectingHost fired on the second session, the active one, of two
C33_Witness ==
    /\ last.op = "startInspectingHost"
    /\ last.session = 2 /\ activeSession = 2
    /\ last.event = "inspectHost" /\ last.backend = "startInspectingHost"

\* call c was just made for a session that is DevtoolsConnected and whose
\* proxy is bound
CalledWhileDevtoolsConnected(c) ==
    /\ Len(calls) = c
    /\ last.op = "startOrGetSession"
    /\ sessions[calls[c].session].status = DevtoolsConnected
    /\ sessions[calls[c].session].proxyResult # 0
    /\ proxies[sessions[calls[c].session].proxyResult].state = "bound"

\* C34: a startOrGetSession call made while the session of the port is
\* DevtoolsConnected with a bound proxy is eventually resolved with the proxy
\* port of the session, whether or not the backend reports anything more.
C34_ResolvesWhileDevtoolsConnected ==
    \A c \in 1 .. MaxCalls :
        CalledWhileDevtoolsConnected(c) ~>
            (/\ c \in DOMAIN calls
             /\ calls[c].state = "resolved"
             /\ calls[c].value = ProxyPort(sessions, proxies, calls[c].session))

\* C35: when a startOrGetSession call resolves (for a session that was not
\* disposed), the port it resolves with is the port of a proxy of its session
\* that is bound at that moment.
C35_ResolvesWithBoundProxy ==
    [][\A c \in DOMAIN calls' :
          (/\ calls'[c].state = "resolved"
           /\ ~sessions'[calls'[c].session].stopped
           /\ (c \in DOMAIN calls => calls[c].state # "resolved")) =>
              \E x \in DOMAIN proxies' :
                  /\ proxies'[x].owner = calls'[c].session
                  /\ proxies'[x].state = "bound"
                  /\ proxies'[x].proxyPort = calls'[c].value]_vars

\* C36: a status event that a session fires when none of its proxy starts is
\* in flight carries the status the session has: the events come in the order
\* in which the statuses were assigned.
C36_StatusEventsInOrder ==
    [][(/\ last'.event = "status"
        /\ \A x \in DOMAIN proxies' :
              proxies'[x].owner = last'.session => proxies'[x].state # "starting") =>
            last'.fired = sessions'[last'.session].status]_vars

\* the start of proxy x is in flight and the session that awaits it was disposed
StartingAfterDispose(x) ==
    /\ x \in DOMAIN proxies
    /\ proxies[x].state = "starting"
    /\ sessions[proxies[x].owner].stopped

\* C37: a proxy whose start is in flight when its session is disposed ends
\* neither bound nor recorded as the proxy of the session: after dispose the
\* session eventually holds no bound proxy.
C37_NoProxyAfterDispose ==
    \A x \in 1 .. MaxProxies :
        StartingAfterDispose(x) ~>
            (/\ x \in DOMAIN proxies
             /\ proxies[x].state \notin {"starting", "bound"}
             /\ sessions[proxies[x].owner].proxyResult # x)

\* C38: no two sessions of the registry are constructed with the same
\* suggested backend port, also when the later one is created before the
\* backend of the earlier one has reported its port.
C38_DistinctSuggestedPorts ==
    \A s \in RegisteredSessions : \A t \in RegisteredSessions :
        s # t => sessions[s].suggestedDevtoolsPort # sessions[t].suggestedDevtoolsPort

\* C39: after any number of show() calls on a view that is still the active
\* view, one URL change reported by that view fires exactly one onUrlChange
\* event of the manager and starts exactly one openUrl call.
C39_OneEventPerUrlChange ==
    [][\A v \in 1 .. MaxViews : \A url \in Urls :
          (/\ viewUrlChange(v, url)
           /\ browser.activeView = v
           /\ browser.views[v].shown >= 1) =>
              /\ browser'.urlChange.fired = 1
              /\ Len(browser'.opening) = Len(browser.opening) + 1]_vars

====
